---- MODULE Spec2Model ----
(***************************************************************************)
(* Model of the Research Improve API: the upload analysis handler          *)
(* (src/main.py analyze), its text extractor (extract_text), the metrics   *)
(* and recommendation step (basic_analysis) and the record schema          *)
(* (src/schemas.py Researchpaper).                                         *)
(*                                                                         *)
(* A character is a one-character string and a text is a sequence of       *)
(* characters.  A byte is a one-character string when it is an ASCII       *)
(* byte; the string "xFF" is the byte 0xFF, which is no valid UTF-8.       *)
(* Floats are exact rationals [n, d]; a value rounded to two decimals is   *)
(* the integer number of hundredths.                                       *)
(***************************************************************************)
EXTENDS Integers, Sequences, FiniteSets, TLC

(* ------------------------------ bounds --------------------------------- *)

\* longest free part of a text given to basic_analysis
MaxLen == 3
\* longest byte content of an upload
MaxBytes == 2

(* --------------------------- character classes ------------------------- *)

UpperLetters ==
  <<"A","B","C","D","E","F","G","H","I","J","K","L","M",
    "N","O","P","Q","R","S","T","U","V","W","X","Y","Z">>

LowerLetters ==
  <<"a","b","c","d","e","f","g","h","i","j","k","l","m",
    "n","o","p","q","r","s","t","u","v","w","x","y","z">>

DigitChars == {"0","1","2","3","4","5","6","7","8","9"}

\* \w of the regular expressions
IsWordChar(c) ==
  \/ \E i \in 1..26 : c = UpperLetters[i] \/ c = LowerLetters[i]
  \/ c \in DigitChars
  \/ c = "_"

\* \s of the regular expressions, and what str.strip() removes
IsSpace(c) == c \in {" ", "\n", "\t", "\r"}

\* the class [.!?] of the sentence split
IsTerminal(c) == c \in {".", "!", "?"}

LowerChar(c) ==
  IF \E i \in 1..26 : c = UpperLetters[i]
  THEN LowerLetters[CHOOSE i \in 1..26 : c = UpperLetters[i]]
  ELSE c

\* str.lower()
lower(s) == [i \in 1..Len(s) |-> LowerChar(s[i])]

(* ------------------------------ str helpers ---------------------------- *)

RECURSIVE FirstKept(_, _, _)
\* index of the first character at or after i that is not in drop, or Len+1
FirstKept(s, i, drop) ==
  IF i > Len(s) THEN i
  ELSE IF s[i] \in drop THEN FirstKept(s, i + 1, drop) ELSE i

RECURSIVE LastKept(_, _, _)
\* index of the last character at or before i that is not in drop, or 0
LastKept(s, i, drop) ==
  IF i < 1 THEN 0
  ELSE IF s[i] \in drop THEN LastKept(s, i - 1, drop) ELSE i

\* str.strip(chars)
strip_chars(s, drop) ==
  LET a == FirstKept(s, 1, drop)
      b == LastKept(s, Len(s), drop)
  IN  IF a > b THEN <<>> ELSE SubSeq(s, a, b)

\* str.strip()
strip(s) == strip_chars(s, {" ", "\n", "\t", "\r"})

\* sub in s
Contains(s, sub) ==
  \E i \in 1..(Len(s) - Len(sub) + 1) : SubSeq(s, i, i + Len(sub) - 1) = sub

\* s.endswith(suffix)
endswith(s, suffix) ==
  /\ Len(s) >= Len(suffix)
  /\ SubSeq(s, Len(s) - Len(suffix) + 1, Len(s)) = suffix

\* s.rsplit(".", 1)[0]
rsplit_dot_head(s) ==
  LET dots == {i \in 1..Len(s) : s[i] = "."}
  IN  IF dots = {} THEN s
      ELSE SubSeq(s, 1, (CHOOSE i \in dots : \A j \in dots : j <= i) - 1)

(* ------------------------------ regex steps ---------------------------- *)

\* the indices of s, in order
Indices(s) == [i \in 1..Len(s) |-> i]

\* re.findall(r"\b\w+\b", text): the maximal runs of word characters, from
\* left to right; run k goes from the k-th run start to the k-th run end
findall_words(text) ==
  LET starts == SelectSeq(Indices(text), LAMBDA i :
                  IsWordChar(text[i]) /\ (i = 1 \/ ~IsWordChar(text[i - 1])))
      ends == SelectSeq(Indices(text), LAMBDA i :
                IsWordChar(text[i])
                /\ (i = Len(text) \/ ~IsWordChar(text[i + 1])))
  IN  [k \in 1..Len(starts) |-> SubSeq(text, starts[k], ends[k])]

\* faulty variant of Lookbehind: the split pattern without its lookbehind
LookbehindAny(s, i) == TRUE

\* (?<=[.!?]) at position i
Lookbehind(s, i) == i > 1 /\ IsTerminal(s[i - 1])

\* re.split(r"(?<=[.!?])\s+", s): cut at every whitespace run that follows
\* a terminal character; the run itself is dropped.  A match can only begin
\* at the first character of a whitespace run, and takes the whole run.
split_sentences(s) ==
  LET cuts == SelectSeq(Indices(s), LAMBDA i :
                IsSpace(s[i]) /\ (i = 1 \/ ~IsSpace(s[i - 1]))
                /\ Lookbehind(s, i))
      n == Len(cuts)
  IN  [k \in 1..(n + 1) |->
        SubSeq(s,
               IF k = 1 THEN 1
               ELSE FirstKept(s, cuts[k - 1], {" ", "\n", "\t", "\r"}),
               IF k = n + 1 THEN Len(s) ELSE cuts[k] - 1)]

(* ------------------------------- numbers ------------------------------- *)

Zero == [n |-> 0, d |-> 1]
One == [n |-> 1, d |-> 1]

\* a / b of two non-negative integers, b > 0
Div(a, b) == [n |-> a, d |-> b]

Mul(p, q) == [n |-> p.n * q.n, d |-> p.d * q.d]

\* p > k and p < k for an integer k
Gt(p, k) == p.n > k * p.d
Lt(p, k) == p.n < k * p.d

\* the nearest integer to a / b, ties to the even one
RoundHalfEven(a, b) ==
  LET q == a \div b
      r == a % b
  IN  IF 2 * r < b THEN q
      ELSE IF 2 * r > b THEN q + 1
      ELSE IF q % 2 = 0 THEN q ELSE q + 1

\* round(p, 2), in hundredths
round2(p) == RoundHalfEven(100 * p.n, p.d)

RECURSIVE SumLen(_, _, _)
\* sum(len(w) for w in ws[lo..hi])
SumLen(ws, lo, hi) ==
  IF lo > hi THEN 0
  ELSE IF lo = hi THEN Len(ws[lo])
  ELSE LET mid == (lo + hi) \div 2
       IN  SumLen(ws, lo, mid) + SumLen(ws, mid + 1, hi)

(* ---------------------------- basic_analysis --------------------------- *)

abstract == <<"a","b","s","t","r","a","c","t">>
introduction == <<"i","n","t","r","o","d","u","c","t","i","o","n">>
methods == <<"m","e","t","h","o","d","s">>
materials == <<"m","a","t","e","r","i","a","l","s">>
results == <<"r","e","s","u","l","t","s">>
discussion == <<"d","i","s","c","u","s","s","i","o","n">>
conclusion == <<"c","o","n","c","l","u","s","i","o","n">>
references == <<"r","e","f","e","r","e","n","c","e","s">>

\* the vocabulary of the section scan, in its order
SectionNames ==
  <<abstract, introduction, methods, materials,
    results, discussion, conclusion, references>>

MsgEmpty == "The file appears empty or unreadable. Upload a TXT, DOCX, or PDF."
MsgLong == "Sentences are long on average. Consider splitting complex sentences."
MsgShort == "Sentences are very short. Combine related ideas to improve flow."
MsgDense == "Language may be dense. Prefer simpler words where possible."
MsgAbstract == "Add or refine an Abstract summarizing purpose, methods, results, and conclusions."
MsgIntroduction == "Ensure an Introduction with clear problem statement and contributions."
MsgMethods == "Include a Methods/Materials section detailing protocols and datasets."
MsgResults == "Add a Results section with key findings and visuals."
MsgDiscussion == "Include a Discussion interpreting findings and limitations."
MsgConclusion == "Conclude with takeaways and future work."
MsgReferences == "Provide properly formatted References."

\* x in l
In(x, l) == \E i \in 1..Len(l) : l[i] = x

\* [s.strip('\\b') for s in [...] if s in lower]
detect_sections(low) ==
  LET found == SelectSeq(SectionNames, LAMBDA s : Contains(low, s))
  IN  [i \in 1..Len(found) |-> strip_chars(found[i], {"\\", "b"})]

\* faulty variant of Readability: max(avg_sentence_length, 1) for the factor
ReadabilityMax(avg_word_len, avg_sentence_length) ==
  round2(Mul(avg_word_len,
             IF Lt(avg_sentence_length, 1) THEN One ELSE avg_sentence_length))

\* round(avg_word_len * (avg_sentence_length or 1), 2)
Readability(avg_word_len, avg_sentence_length) ==
  round2(Mul(avg_word_len,
             IF avg_sentence_length.n # 0 THEN avg_sentence_length ELSE One))

\* sentence_count and avg_sentence_length > 30
LongRule(sentence_count, avg_sentence_length) ==
  sentence_count # 0 /\ Gt(avg_sentence_length, 30)

\* faulty variant of ShortRule: the sentence_count guard left out
ShortRuleUnguarded(sentence_count, avg_sentence_length) ==
  Lt(avg_sentence_length, 12)

\* faulty variant of ShortRule: the comparison turned round
ShortRuleGreater(sentence_count, avg_sentence_length) ==
  sentence_count # 0 /\ Gt(avg_sentence_length, 12)

\* sentence_count and avg_sentence_length < 12
ShortRule(sentence_count, avg_sentence_length) ==
  sentence_count # 0 /\ Lt(avg_sentence_length, 12)

\* readability and readability > 140
DenseRule(readability) == readability # 0 /\ readability > 14000

\* faulty variant of append: recs.insert(0, msg)
insert_front(recs, msg) == <<msg>> \o recs

\* recs.append(msg)
append(recs, msg) == Append(recs, msg)

\* if cond: recs.append(msg)
append_if(recs, cond, msg) == IF cond THEN append(recs, msg) ELSE recs

RECURSIVE dict_fromkeys(_, _, _)
\* list(dict.fromkeys(recs)): the first occurrence of every string, in order
dict_fromkeys(l, i, acc) ==
  IF i > Len(l) THEN acc
  ELSE dict_fromkeys(l, i + 1, IF In(l[i], acc) THEN acc ELSE Append(acc, l[i]))

basic_analysis(t) ==
  LET words == findall_words(t)
      stripped == strip(t)
      sentences == IF stripped # <<>>
                   THEN split_sentences(stripped)
                   ELSE <<>>
      sentence_count == Len(SelectSeq(sentences, LAMBDA s : strip(s) # <<>>))
      word_count == Len(words)
      avg_sentence_length == IF sentence_count # 0
                             THEN Div(word_count, sentence_count)
                             ELSE Zero
      low == lower(t)
      sections == detect_sections(low)
      avg_word_len == IF word_count # 0
                      THEN Div(SumLen(words, 1, word_count), word_count)
                      ELSE Zero
      readability == Readability(avg_word_len, avg_sentence_length)
      r1 == append_if(<<>>, stripped = <<>>, MsgEmpty)
      r2 == append_if(r1, LongRule(sentence_count, avg_sentence_length),
                      MsgLong)
      r3 == append_if(r2, ShortRule(sentence_count, avg_sentence_length),
                      MsgShort)
      r4 == append_if(r3, DenseRule(readability), MsgDense)
      r5 == append_if(r4, ~In(abstract, sections), MsgAbstract)
      r6 == append_if(r5, ~In(introduction, sections), MsgIntroduction)
      r7 == append_if(r6, ~(\E s \in {methods, materials} : In(s, sections)),
                      MsgMethods)
      r8 == append_if(r7, ~In(results, sections), MsgResults)
      r9 == append_if(r8, ~In(discussion, sections), MsgDiscussion)
      r10 == append_if(r9, ~In(conclusion, sections), MsgConclusion)
      r11 == append_if(r10, ~In(references, sections), MsgReferences)
      recs == dict_fromkeys(r11, 1, <<>>)
  IN  [word_count |-> word_count,
       sentence_count |-> sentence_count,
       avg_sentence_length |-> round2(avg_sentence_length),
       sections |-> sections,
       readability |-> readability,
       recommendations |-> recs]

(* ----------------------------- extract_text --------------------------- *)

\* bytes.decode("utf-8", errors="ignore"): an ASCII byte decodes to its
\* character, a byte that is no valid UTF-8 is dropped
decode_utf8_ignore(bytes) == SelectSeq(bytes, LAMBDA b : b # "xFF")

\* a filename: None, or a str
None == [none |-> TRUE, s |-> <<>>]
Str(s) == [none |-> FALSE, s |-> s]

\* pdf_high.extract_text(f): the outcomes of the PDF library on the bytes.
\* The library is not part of the repository: it raises on bytes that do not
\* begin with the PDF magic "%", and on the others it raises or returns the
\* text of the document body.
pdf_extract_text(bytes) ==
  {[raised |-> TRUE, value |-> <<>>]} \cup
  (IF Len(bytes) > 0 /\ bytes[1] = "%"
   THEN {[raised |-> FALSE, value |-> decode_utf8_ignore(Tail(bytes))]}
   ELSE {})

\* docx.Document(io.BytesIO(content)) and "\n".join(p.text ...): the outcomes
\* of the DOCX library.  It raises on bytes that do not begin with the zip
\* magic "P", and on the others it raises or yields the joined paragraphs.
docx_paragraphs(bytes) ==
  {[raised |-> TRUE, value |-> <<>>]} \cup
  (IF Len(bytes) > 0 /\ bytes[1] = "P"
   THEN {[raised |-> FALSE, value |-> decode_utf8_ignore(Tail(bytes))]}
   ELSE {})

\* the strings extract_text can return for a str filename (lines 50-71)
extract_text(name, bytes, pdf_available, docx_available) ==
  LET low == lower(name)
  IN  IF endswith(low, <<".","t","x","t">>)
      THEN {decode_utf8_ignore(bytes)}
      ELSE IF endswith(low, <<".","p","d","f">>) /\ pdf_available
      THEN {IF o.raised THEN <<>> ELSE o.value : o \in pdf_extract_text(bytes)}
      ELSE IF endswith(low, <<".","d","o","c","x">>) /\ docx_available
      THEN {IF o.raised THEN <<>> ELSE o.value : o \in docx_paragraphs(bytes)}
      ELSE {decode_utf8_ignore(bytes)}

(* -------------------------------- schema ------------------------------- *)

\* the field constraints of Researchpaper: filename is a str, the counts
\* and the average are >= 0
Researchpaper_valid(d) ==
  /\ ~d.filename.none
  /\ d.size_bytes >= 0
  /\ d.word_count >= 0
  /\ d.sentence_count >= 0
  /\ d.avg_sentence_length >= 0

(* -------------------------------- inputs ------------------------------- *)

RECURSIVE Rep(_, _)
\* s repeated n times
Rep(s, n) == IF n = 0 THEN <<>> ELSE s \o Rep(s, n - 1)

\* the characters of the free part of a text
TextAlphabet == {"a", " ", ".", "?", ","}

\* the fixed beginnings of the texts: section headings in several cases,
\* and runs long enough to reach the sentence-length and density thresholds
TextPrefixes ==
  { <<>>,
    abstract \o <<" ">>,
    <<"M","e","t","h","o","d","s"," ">>,
    materials \o <<" ">>,
    <<"R","E","S","U","L","T","S"," ","a","n","d"," ",
      "D","i","s","c","u","s","s","i","o","n"," ">>,
    abstract \o <<" ">> \o introduction \o <<" ">> \o methods \o <<" ">>
      \o materials \o <<" ">> \o results \o <<" ">> \o discussion
      \o <<" ">> \o conclusion \o <<" ">> \o references \o <<" ">>,
    Rep(<<"a"," ">>, 31),
    Rep(introduction \o <<" ">>, 12),
    Rep(<<"a","b","c","d","e"," ">>, 31),
    Rep(Rep(<<"a"," ">>, 34) \o <<"a","."," ">>, 5) }

Texts ==
  {p \o b : p \in TextPrefixes,
            b \in UNION {[1..n -> TextAlphabet] : n \in 0..MaxLen}}

\* the bytes of an upload: ASCII bytes, among them the magic bytes of the
\* two document formats, and the invalid byte 0xFF
ByteAlphabet == {"a", " ", ".", "xFF", "%", "P"}

Contents == UNION {[1..n -> ByteAlphabet] : n \in 0..MaxBytes}

Filenames ==
  { None,
    Str(<<>>),
    Str(<<"p">>),
    Str(<<".","t","x","t">>),
    Str(<<".","p">>),
    Str(<<"p",".","t","x","t">>),
    Str(<<"p",".","T","X","T">>),
    Str(<<"p",".","p","d","f">>),
    Str(<<"p",".","D","o","c","x">>),
    Str(<<"p",".","v","2",".","t","x","t">>) }

(* -------------------------------- state -------------------------------- *)

VARIABLES
  pc,             \* the statement of analyze that runs next
  filename,       \* file.filename
  file_bytes,     \* the bytes behind file.file
  pos,            \* the read position of file.file
  PDF_AVAILABLE,  \* main.py:34/36
  DOCX_AVAILABLE, \* main.py:40/42
  db,             \* TRUE when database.db is not None
  store,          \* the documents create_document has inserted
  content,        \* extract_text's local content
  text,           \* the extracted text
  analysis,       \* the dict basic_analysis returned
  base_title,     \* analyze's local base_title
  doc,            \* the Researchpaper built by analyze
  inserted_id,    \* the id create_document returned
  outcome,        \* how the request ended
  response        \* the AnalyzeResponse

vars ==
  <<pc, filename, file_bytes, pos, PDF_AVAILABLE, DOCX_AVAILABLE, db, store,
    content, text, analysis, base_title, doc, inserted_id, outcome, response>>

Unset == [unset |-> TRUE]

UntitledPaper == <<"U","n","t","i","t","l","e","d"," ","P","a","p","e","r">>

Locals ==
  /\ store = <<>>
  /\ analysis = Unset
  /\ base_title = <<>>
  /\ doc = Unset
  /\ inserted_id = 0
  /\ outcome = "pending"
  /\ response = Unset

\* a request arrives at analyze
Init ==
  /\ pc = "extract_read"
  /\ filename \in Filenames
  /\ file_bytes \in Contents
  /\ pos = 0
  /\ content = <<>>
  /\ PDF_AVAILABLE \in BOOLEAN
  /\ DOCX_AVAILABLE \in BOOLEAN
  /\ db \in BOOLEAN
  /\ text = <<>>
  /\ Locals

\* basic_analysis is about to run on a text that extract_text returned for
\* a .txt upload of the text's bytes
InitAnalysis ==
  /\ pc = "basic_analysis"
  /\ filename = Str(<<"p",".","t","x","t">>)
  /\ text \in Texts
  /\ file_bytes = text
  /\ content = text
  /\ pos = 0
  /\ PDF_AVAILABLE = TRUE
  /\ DOCX_AVAILABLE = TRUE
  /\ db = TRUE
  /\ Locals

(* ------------------------------- actions ------------------------------- *)

\* file.file.read(): the bytes from the read position to the end
read_rest == SubSeq(file_bytes, pos + 1, Len(file_bytes))

\* main.py:46  content = file.file.read()
ExtractRead ==
  /\ pc = "extract_read"
  /\ content' = read_rest
  /\ pos' = Len(file_bytes)
  /\ pc' = "extract_seek"
  /\ UNCHANGED <<filename, file_bytes, PDF_AVAILABLE, DOCX_AVAILABLE, db,
                 store, text, analysis, base_title, doc, inserted_id,
                 outcome, response>>

\* faulty variant of ExtractSeek: the read position is not reset
ExtractSeekSkipped ==
  /\ pc = "extract_seek"
  /\ pc' = "extract_dispatch"
  /\ UNCHANGED <<filename, file_bytes, pos, PDF_AVAILABLE, DOCX_AVAILABLE,
                 db, store, content, text, analysis, base_title, doc,
                 inserted_id, outcome, response>>

\* main.py:48  file.file.seek(0)
ExtractSeek ==
  /\ pc = "extract_seek"
  /\ pos' = 0
  /\ pc' = "extract_dispatch"
  /\ UNCHANGED <<filename, file_bytes, PDF_AVAILABLE, DOCX_AVAILABLE, db,
                 store, content, text, analysis, base_title, doc,
                 inserted_id, outcome, response>>

\* main.py:50-71  the dispatch on file.filename.lower(); None has no lower()
\* and the AttributeError leaves extract_text and analyze
ExtractDispatch ==
  /\ pc = "extract_dispatch"
  /\ IF filename.none
     THEN /\ outcome' = "AttributeError"
          /\ pc' = "done"
          /\ text' = text
     ELSE /\ text' \in extract_text(filename.s, content,
                                    PDF_AVAILABLE, DOCX_AVAILABLE)
          /\ pc' = "basic_analysis"
          /\ outcome' = outcome
  /\ UNCHANGED <<filename, file_bytes, pos, PDF_AVAILABLE, DOCX_AVAILABLE,
                 db, store, content, analysis, base_title, doc, inserted_id,
                 response>>

\* main.py:135  analysis = basic_analysis(text)
BasicAnalysis ==
  /\ pc = "basic_analysis"
  /\ analysis' = basic_analysis(text)
  /\ pc' = "title"
  /\ UNCHANGED <<filename, file_bytes, pos, PDF_AVAILABLE, DOCX_AVAILABLE,
                 db, store, content, text, base_title, doc, inserted_id,
                 outcome, response>>

\* file.filename.rsplit(".", 1)[0] if file.filename else "Untitled Paper"
title_of(f) ==
  IF ~f.none /\ f.s # <<>> THEN rsplit_dot_head(f.s) ELSE UntitledPaper

\* main.py:138
Title ==
  /\ pc = "title"
  /\ base_title' = title_of(filename)
  /\ pc' = "db_check"
  /\ UNCHANGED <<filename, file_bytes, pos, PDF_AVAILABLE, DOCX_AVAILABLE,
                 db, store, content, text, analysis, doc, inserted_id,
                 outcome, response>>

\* main.py:141-142  if db is None: raise HTTPException(500, ...)
DbCheck ==
  /\ pc = "db_check"
  /\ IF ~db
     THEN /\ outcome' = "Database not configured"
          /\ pc' = "done"
     ELSE /\ outcome' = outcome
          /\ pc' = "build_doc"
  /\ UNCHANGED <<filename, file_bytes, pos, PDF_AVAILABLE, DOCX_AVAILABLE,
                 db, store, content, text, analysis, base_title, doc,
                 inserted_id, response>>

\* the keyword arguments of Researchpaper(...) at main.py:144-155
new_doc ==
  [title |-> base_title,
   filename |-> filename,
   size_bytes |-> Len(read_rest),
   word_count |-> analysis.word_count,
   sentence_count |-> analysis.sentence_count,
   avg_sentence_length |-> analysis.avg_sentence_length,
   sections |-> analysis.sections,
   readability |-> analysis.readability,
   recommendations |-> analysis.recommendations,
   status |-> "analyzed"]

\* main.py:144-155  the second read measures the size, then the model
\* validates its fields
BuildDoc ==
  /\ pc = "build_doc"
  /\ pos' = Len(file_bytes)
  /\ IF Researchpaper_valid(new_doc)
     THEN /\ doc' = new_doc
          /\ pc' = "seek"
          /\ outcome' = outcome
     ELSE /\ doc' = doc
          /\ pc' = "done"
          /\ outcome' = "ValidationError"
  /\ UNCHANGED <<filename, file_bytes, PDF_AVAILABLE, DOCX_AVAILABLE, db,
                 store, content, text, analysis, base_title, inserted_id,
                 response>>

\* main.py:158  file.file.seek(0)
Seek ==
  /\ pc = "seek"
  /\ pos' = 0
  /\ pc' = "create"
  /\ UNCHANGED <<filename, file_bytes, PDF_AVAILABLE, DOCX_AVAILABLE, db,
                 store, content, text, analysis, base_title, doc,
                 inserted_id, outcome, response>>

\* create(collection_name, record) -> generated_id: the storage collaborator
\* appends the record and assigns its identity
create_document(st, d) == [store |-> Append(st, d), id |-> Len(st) + 1]

\* main.py:160  inserted_id = create_document("researchpaper", doc)
Create ==
  /\ pc = "create"
  /\ store' = create_document(store, doc).store
  /\ inserted_id' = create_document(store, doc).id
  /\ pc' = "respond"
  /\ UNCHANGED <<filename, file_bytes, pos, PDF_AVAILABLE, DOCX_AVAILABLE,
                 db, content, text, analysis, base_title, doc, outcome,
                 response>>

\* main.py:162-166  return AnalyzeResponse(...)
Respond ==
  /\ pc = "respond"
  /\ response' = [id |-> inserted_id,
                  recommendations |-> doc.recommendations,
                  title |-> doc.title]
  /\ outcome' = "ok"
  /\ pc' = "done"
  /\ UNCHANGED <<filename, file_bytes, pos, PDF_AVAILABLE, DOCX_AVAILABLE,
                 db, store, content, text, analysis, base_title, doc,
                 inserted_id>>

Next ==
  \/ ExtractRead
  \/ ExtractSeek
  \/ ExtractDispatch
  \/ BasicAnalysis
  \/ Title
  \/ DbCheck
  \/ BuildDoc
  \/ Seek
  \/ Create
  \/ Respond

Spec == Init /\ [][Next]_vars

NextAnalysis == BasicAnalysis

SpecAnalysis == InitAnalysis /\ [][NextAnalysis]_vars

(* ------------------------------ properties ----------------------------- *)

\* basic_analysis has returned in this request
AnalysisDone ==
  \/ pc \in {"title", "db_check", "build_doc", "seek", "create", "respond"}
  \/ pc = "done" /\ outcome # "AttributeError"

\* the seven section-based recommendations, in rule order
SectionMessages ==
  <<MsgAbstract, MsgIntroduction, MsgMethods, MsgResults, MsgDiscussion,
    MsgConclusion, MsgReferences>>

\* the messages of the eleven rules, in rule order
RuleOrder == <<MsgEmpty, MsgLong, MsgShort, MsgDense>> \o SectionMessages

\* the place of a message in the rule order
RuleIndex(m) == CHOOSE i \in 1..Len(RuleOrder) : RuleOrder[i] = m

\* the number of word-token characters of the text
WordChars == Cardinality({i \in 1..Len(text) : IsWordChar(text[i])})

\* str.isalnum() of one character
IsAlnum(c) == IsWordChar(c) /\ c # "_"

\* the text is made of alphanumeric tokens and spaces only, with a token
SpaceSeparatedTokens ==
  /\ \A i \in 1..Len(text) : IsAlnum(text[i]) \/ text[i] = " "
  /\ \E i \in 1..Len(text) : IsAlnum(text[i])

\* the number N of space-separated tokens of the text
TokenCount ==
  Cardinality({i \in 1..Len(text) :
                 IsAlnum(text[i]) /\ (i = 1 \/ text[i - 1] = " ")})

\* C1: extract_text returns a string for every byte input and every filename,
\* absent and empty filenames included: no request ends in an error raised
\* inside extract_text.
C1_ExtractTextNeverRaises == outcome # "AttributeError"

\* C2: an absent or empty filename is defaulted, not surfaced: such a request
\* ends without an error of its own and, with storage available, completes
\* with the title "Untitled Paper"; any other completed request has the
\* filename without its final extension as title.
C2_MissingFilenameDefaulted ==
  pc = "done" =>
    IF filename.none \/ filename.s = <<>>
    THEN /\ outcome \notin {"AttributeError", "ValidationError"}
         /\ db => (outcome = "ok" /\ response.title = UntitledPaper)
    ELSE outcome = "ok" => response.title = rsplit_dot_head(filename.s)

\* C3: every record handed to the storage collaborator has a non-empty title.
C3_StoredTitleNonEmpty ==
  \A i \in 1..Len(store) : store[i].title # <<>>

\* C4: with storage unavailable the request ends in the configuration error
\* and create is never invoked; a request that completes has invoked create
\* exactly once, with a record of status "analyzed".
C4_ConfigErrorOrOneCreate ==
  /\ ~db => store = <<>>
  /\ (pc = "done" /\ ~db) => outcome = "Database not configured"
  /\ outcome = "ok" => (Len(store) = 1 /\ store[1].status = "analyzed")

\* C5: a zero-length payload, under any filename extension and with the PDF
\* and DOCX capabilities present or absent, is extracted to the empty text and
\* analysed to readability 0 and to exactly the empty-or-unreadable message
\* followed by the seven section recommendations.
C5_EmptyPayload ==
  file_bytes = <<>> =>
    /\ pc = "basic_analysis" => text = <<>>
    /\ AnalysisDone =>
         /\ analysis.readability = 0
         /\ analysis.recommendations = <<MsgEmpty>> \o SectionMessages

\* C5 witness: an empty .pdf upload, the PDF capability present, analysed and
\* stored.
C5_Witness ==
  /\ file_bytes = <<>>
  /\ ~filename.none
  /\ endswith(lower(filename.s), <<".","p","d","f">>)
  /\ PDF_AVAILABLE
  /\ pc = "done"
  /\ outcome = "ok"

\* C6 as stated: readability is round(avg_word_length * max(avg_sentence_length,
\* 1), 2), 0 without words, also when there are more sentence segments than
\* words.
C6_ReadabilityMaxOne ==
  pc = "title" =>
    LET wc == analysis.word_count
        sc == analysis.sentence_count
    IN  analysis.readability =
          IF wc = 0 THEN 0
          ELSE IF sc = 0 \/ wc < sc
               THEN RoundHalfEven(100 * WordChars, wc)
               ELSE RoundHalfEven(100 * WordChars * wc, wc * sc)

\* C6 amended: readability is round(avg_word_length * f, 2) where f is
\* avg_sentence_length when that is not 0 and 1 when it is 0; with more
\* sentence segments than words the factor is the average itself, below 1.
C6_ReadabilityOrOne ==
  pc = "title" =>
    LET wc == analysis.word_count
        sc == analysis.sentence_count
    IN  analysis.readability =
          IF wc = 0 THEN 0
          ELSE IF sc = 0
               THEN RoundHalfEven(100 * WordChars, wc)
               ELSE RoundHalfEven(100 * WordChars * wc, wc * sc)

\* C6 witness: an analysed text with more sentence segments than words.
C6_Witness ==
  /\ pc = "title"
  /\ analysis.word_count > 0
  /\ analysis.word_count < analysis.sentence_count
  /\ analysis.readability > 0

\* C7: the recommendation list has no duplicates, lists messages of the
\* eleven rules in rule order, and holds the message of a rule exactly when
\* the rule is triggered.
C7_RecommendationsInRuleOrder ==
  pc = "title" =>
    LET r == analysis.recommendations
        wc == analysis.word_count
        sc == analysis.sentence_count
        secs == analysis.sections
    IN  /\ \A i, j \in 1..Len(r) : i # j => r[i] # r[j]
        /\ \A i \in 1..Len(r) : In(r[i], RuleOrder)
        /\ \A i \in 1..(Len(r) - 1) : RuleIndex(r[i]) < RuleIndex(r[i + 1])
        /\ In(MsgEmpty, r) <=> (\A i \in 1..Len(text) : IsSpace(text[i]))
        /\ In(MsgLong, r) <=> (sc > 0 /\ wc > 30 * sc)
        /\ In(MsgShort, r) <=> (sc > 0 /\ wc < 12 * sc)
        /\ In(MsgDense, r) <=> analysis.readability > 14000
        /\ In(MsgAbstract, r) <=> ~In(abstract, secs)
        /\ In(MsgIntroduction, r) <=> ~In(introduction, secs)
        /\ In(MsgMethods, r) <=> (~In(methods, secs) /\ ~In(materials, secs))
        /\ In(MsgResults, r) <=> ~In(results, secs)
        /\ In(MsgDiscussion, r) <=> ~In(discussion, secs)
        /\ In(MsgConclusion, r) <=> ~In(conclusion, secs)
        /\ In(MsgReferences, r) <=> ~In(references, secs)

\* C7 witness: a text that triggers the long-sentence, the dense-language and
\* some but not all section rules.
C7_Witness ==
  /\ pc = "title"
  /\ In(MsgLong, analysis.recommendations)
  /\ In(MsgDense, analysis.recommendations)
  /\ In(MsgAbstract, analysis.recommendations)
  /\ Len(analysis.recommendations) >= 4

\* C8: with sentence_count > 0 and avg_sentence_length > 30 the list holds
\* the long-sentence warning and not the short-sentence warning, and no list
\* holds both.
C8_LongExcludesShort ==
  pc = "title" =>
    LET r == analysis.recommendations
    IN  /\ (analysis.sentence_count > 0
            /\ analysis.word_count > 30 * analysis.sentence_count)
           => (In(MsgLong, r) /\ ~In(MsgShort, r))
        /\ ~(In(MsgLong, r) /\ In(MsgShort, r))

\* C8 witness: the metrics of the example, avg_sentence_length = 35 over 5
\* sentences.
C8_Witness ==
  /\ pc = "title"
  /\ analysis.sentence_count = 5
  /\ analysis.avg_sentence_length = 3500

\* C9: a text of N space-separated alphanumeric tokens without terminal
\* punctuation has sentence_count = 1, word_count = N and
\* avg_sentence_length = N.
C9_OneSentence ==
  (pc = "title" /\ SpaceSeparatedTokens) =>
    /\ analysis.sentence_count = 1
    /\ analysis.word_count = TokenCount
    /\ analysis.avg_sentence_length = 100 * TokenCount

\* C9 witness: an analysed text of several space-separated tokens.
C9_Witness ==
  /\ pc = "title"
  /\ SpaceSeparatedTokens
  /\ TokenCount >= 3

\* C10: extract_text reads the file to its end and resets the position to 0
\* before the read that measures the size, so size_bytes is the full byte
\* length of the upload, and the position is 0 again when create is invoked.
C10_SizeIsFullLength ==
  /\ pc = "extract_seek" => (pos = Len(file_bytes) /\ content = file_bytes)
  /\ pc = "build_doc" => pos = 0
  /\ pc = "seek" => (pos = Len(file_bytes)
                     /\ doc.size_bytes = Len(file_bytes))
  /\ pc = "create" => (pos = 0 /\ doc.size_bytes = Len(file_bytes))
  /\ \A i \in 1..Len(store) : store[i].size_bytes = Len(file_bytes)

\* C10 witness: create is about to store the record of an upload whose text
\* is shorter than its bytes.
C10_Witness ==
  /\ pc = "create"
  /\ Len(file_bytes) >= 2
  /\ Len(text) < Len(file_bytes)

====
